---- MODULE Spec2Model ----
(***************************************************************************)
(* Combat state engine of the Nimble encounter builder: the entity        *)
(* mutators of Hero and MonsterInstance (modules/combatants.py) and the    *)
(* marker assignment of CombatManager (modules/combatManager.py).          *)
(*                                                                         *)
(* Python strings that the code trims or parses are sequences of           *)
(* one-character strings, so that strip(), split() and int() are computed. *)
(* Strings the code only compares (names, groups, colours) are TLA+        *)
(* strings.  Optional[str] is <<>> for None and <<s>> for a string s.       *)
(***************************************************************************)
EXTENDS Integers, Sequences, FiniteSets, TLC

VARIABLES
    ent,                  \* the Hero or MonsterInstance under the entity mutators
    call,                 \* history: the last call made, with its arguments
    pre,                  \* history: the state the last call started from
    monsters,             \* CombatManager.monsters
    group_color_map,      \* CombatManager.group_color_map
    marker_palette,       \* CombatManager._marker_palette
    marker_start_number,  \* config.CONFIG.marker_start_number
    encounter_file,       \* the encounter JSON file load_encounter reads
    arrived,              \* history: marker_color / marker_number each monster came with
    heroes,               \* CombatManager.heroes
    monster_library,      \* CombatManager.monster_library
    disk,                 \* the party, library and session (autosave) JSON files
    config,               \* config.CONFIG: autosave, log flags, difficulty thresholds
    hooks,                \* on_log, on_state_changed, on_concentration_note
    events,               \* history: what the last call invoked and wrote, in order
    returned,             \* history: what the last call returned
    capacity              \* the number of combatants a run is bounded to

vars == <<ent, call, pre, monsters, group_color_map, marker_palette,
          marker_start_number, encounter_file, arrived, heroes, monster_library,
          disk, config, hooks, events, returned, capacity>>

\* ------------------------------------------------------------------------
\* Bounds
\* ------------------------------------------------------------------------
MaxAmount == 3
MaxHeroHp == 3
MaxHeroTemp == 2
MaxMonsters == 3
MaxMarkerNumber == 3
MaxCombatants == 1
MaxEncounter == 2

Amounts == (0 - 2) .. MaxAmount

Min(a, b) == IF a <= b THEN a ELSE b
Max(a, b) == IF a >= b THEN a ELSE b

\* ------------------------------------------------------------------------
\* Configuration and hooks
\* ------------------------------------------------------------------------
\* a float the code reads or computes, kept as the exact fraction n / d, d > 0
Rat(n, d) == [n |-> n, d |-> d]

\* config.CONFIG as shipped
DefaultConfig ==
    [autosave_enabled |-> TRUE,
     log_damage_events |-> TRUE,
     log_heal_events |-> TRUE,
     log_condition_changes |-> TRUE,
     log_last_stand_triggers |-> TRUE,
     log_deaths |-> TRUE,
     hero_bloodied_threshold |-> Rat(1, 2),
     hero_critical_threshold |-> Rat(1, 4),
     monster_bloodied_threshold |-> Rat(1, 2),
     monster_critical_threshold |-> Rat(1, 4),
     encounter_difficulty_easy |-> Rat(1, 2),
     encounter_difficulty_medium |-> Rat(3, 4),
     encounter_difficulty_hard |-> Rat(1, 1),
     encounter_difficulty_deadly_max |-> Rat(5, 4)]

\* a hook is "none" (not set), "ok" (returns) or "raises"
NoHooks == [on_log |-> "none", on_state_changed |-> "none", on_concentration_note |-> "none"]

\* a file: whether it is there, the type of its top-level JSON value, and
\* the records under its "heroes" / "monsters" keys
NoDisk ==
    [party |-> [exists |-> FALSE, toplevel |-> "object", heroes |-> <<>>],
     library |-> [exists |-> FALSE, toplevel |-> "object", monsters |-> <<>>],
     session |-> [exists |-> FALSE, toplevel |-> "object", heroes |-> <<>>,
                  monsters |-> <<>>]]

\* ------------------------------------------------------------------------
\* Python string helpers
\* ------------------------------------------------------------------------
IsSpace(c) == c \in {" ", "\t"}

RECURSIVE LStrip(_)
LStrip(s) == IF s # <<>> /\ IsSpace(Head(s)) THEN LStrip(Tail(s)) ELSE s

RECURSIVE RStrip(_)
RStrip(s) ==
    IF s # <<>> /\ IsSpace(s[Len(s)]) THEN RStrip(SubSeq(s, 1, Len(s) - 1)) ELSE s

\* str.strip()
Strip(s) == RStrip(LStrip(s))

RECURSIVE TokenPrefix(_)
TokenPrefix(s) ==
    IF s = <<>> \/ IsSpace(Head(s)) THEN <<>> ELSE <<Head(s)>> \o TokenPrefix(Tail(s))

\* str.split()[0]: the first whitespace-delimited token
FirstToken(s) == TokenPrefix(LStrip(s))

Digits == {"0", "1", "2", "3", "4", "5", "6", "7", "8", "9"}

DigitVal(c) ==
    CASE c = "0" -> 0 [] c = "1" -> 1 [] c = "2" -> 2 [] c = "3" -> 3
      [] c = "4" -> 4 [] c = "5" -> 5 [] c = "6" -> 6 [] c = "7" -> 7
      [] c = "8" -> 8 [] c = "9" -> 9

RECURSIVE DigitsVal(_, _)
DigitsVal(s, acc) ==
    IF s = <<>> THEN acc ELSE DigitsVal(Tail(s), acc * 10 + DigitVal(Head(s)))

IsDigits(s) == s # <<>> /\ \A i \in 1 .. Len(s) : s[i] \in Digits

\* int(token): an optional sign followed by decimal digits; anything else raises
IntParses(tok) ==
    IF tok # <<>> /\ Head(tok) \in {"+", "-"} THEN IsDigits(Tail(tok)) ELSE IsDigits(tok)

IntOf(tok) ==
    IF Head(tok) = "-" THEN 0 - DigitsVal(Tail(tok), 0)
    ELSE IF Head(tok) = "+" THEN DigitsVal(Tail(tok), 0)
    ELSE DigitsVal(tok, 0)

\* int(float): truncation toward zero of a float held in tenths
TruncTenths(t) == IF t >= 0 THEN t \div 10 ELSE 0 - ((0 - t) \div 10)

\* ------------------------------------------------------------------------
\* Condition names
\* ------------------------------------------------------------------------
Dying == <<"D", "y", "i", "n", "g">>
LastStand == <<"L", "a", "s", "t", " ", "S", "t", "a", "n", "d">>

\* the condition strings a caller passes in
CondArgs == {Dying, LastStand, <<" ">> \o Dying \o <<" ">>, <<" ", " ">>}

RECURSIVE RemoveFirst(_, _)
\* list.remove(x) for a list known to contain x: drops the first occurrence
RemoveFirst(s, x) ==
    IF s = <<>> THEN <<>>
    ELSE IF Head(s) = x THEN Tail(s)
    ELSE <<Head(s)>> \o RemoveFirst(Tail(s), x)

InList(s, x) == \E i \in 1 .. Len(s) : s[i] = x

\* add_condition without the membership test
add_condition_always_appends(e, cond) ==
    LET c == Strip(cond) IN
    IF c # <<>> THEN [e EXCEPT !.conditions = Append(@, c)] ELSE e

add_condition(e, cond) ==
    LET c == Strip(cond) IN
    IF c # <<>> /\ ~InList(e.conditions, c)
    THEN [e EXCEPT !.conditions = Append(@, c)]
    ELSE e

remove_condition(e, cond) ==
    LET c == Strip(cond) IN
    IF InList(e.conditions, c)
    THEN [e EXCEPT !.conditions = RemoveFirst(@, c)]
    ELSE e

\* ------------------------------------------------------------------------
\* Hero
\* ------------------------------------------------------------------------
\* damage that bypasses temp HP and hits hp_current directly
Hero_apply_damage_skips_temp(h, amount) ==
    IF amount <= 0 THEN h
    ELSE
        LET hp1 == h.hp_current - amount
            hp2 == IF hp1 < 0 THEN 0 ELSE hp1
            h2 == [h EXCEPT !.hp_current = hp2]
        IN IF hp2 > 0 THEN remove_condition(h2, Dying) ELSE add_condition(h2, Dying)

Hero_apply_damage(h, amount) ==
    IF amount <= 0 THEN h
    ELSE
        LET used == IF h.temp_hp > 0 THEN Min(h.temp_hp, amount) ELSE 0
            rest == amount - used
            hp1 == IF rest > 0 THEN h.hp_current - rest ELSE h.hp_current
            hp2 == IF rest > 0 /\ hp1 < 0 THEN 0 ELSE hp1
            h2 == [h EXCEPT !.temp_hp = @ - used, !.hp_current = hp2]
        IN IF hp2 > 0 THEN remove_condition(h2, Dying) ELSE add_condition(h2, Dying)

Hero_apply_healing(h, amount) ==
    IF amount <= 0 THEN h
    ELSE
        LET hp0 == IF h.hp_current <= 0 /\ h.hp_max > 0 THEN 0 ELSE h.hp_current
            hp1 == hp0 + amount
            hp2 == IF hp1 > h.hp_max THEN h.hp_max ELSE hp1
            h2 == [h EXCEPT !.hp_current = hp2]
        IN IF hp2 > 0 THEN remove_condition(h2, Dying) ELSE h2

\* temp HP stored without the clamp at zero
Hero_set_temp_hp_unclamped(h, amount) == [h EXCEPT !.temp_hp = amount]

Hero_set_temp_hp(h, amount) == [h EXCEPT !.temp_hp = Max(0, amount)]

\* a Hero as the hero dialog builds it: hp_current = min(spin, hp_max)
HeroRecord(hpmax, hpspin, temp, conds) ==
    [cls |-> "Hero", name |-> "New Hero", level |-> 1, hp_max |-> hpmax,
     hp_current |-> Min(hpspin, hpmax), temp_hp |-> temp, conditions |-> conds,
     concentrating |-> FALSE]

\* ------------------------------------------------------------------------
\* MonsterTemplate and MonsterInstance
\* ------------------------------------------------------------------------
\* values a template field can hold after json.load
StrV(s) == [kind |-> "str", s |-> s, v |-> 0]
IntV(n) == [kind |-> "int", s |-> <<>>, v |-> n]
FloatV(tenths) == [kind |-> "float", s |-> <<>>, v |-> tenths]

MonsterInstance_safe_int(value, default) ==
    CASE value.kind = "int" -> value.v
      [] value.kind = "float" -> TruncTenths(value.v)
      [] value.kind = "str" ->
            LET stripped == Strip(value.s) IN
            IF stripped = <<>> THEN default
            ELSE IF IntParses(FirstToken(stripped)) THEN IntOf(FirstToken(stripped))
            ELSE default
      [] OTHER -> default

MonsterInstance_from_template(tpl) ==
    [cls |-> "MonsterInstance",
     name |-> tpl.name,
     legendary |-> tpl.legendary,
     level |-> tpl.level,
     last_stand_text |-> tpl.last_stand,
     last_stand_hp_value |-> MonsterInstance_safe_int(tpl.last_stand_hp, 0),
     hp_max |-> MonsterInstance_safe_int(tpl.hp, 0),
     hp_current |-> MonsterInstance_safe_int(tpl.hp, 0),
     temp_hp |-> 0,
     last_stand_triggered |-> FALSE,
     dead |-> FALSE,
     group |-> "",
     active |-> TRUE,
     concentrating |-> FALSE,
     conditions |-> <<>>,
     marker_color |-> "",
     marker_number |-> 0]

\* a last stand that can be taken again
LastStandAvailable_reusable(m) == m.legendary /\ m.last_stand_text # ""

\* line 453: the last stand is still available
LastStandAvailable(m) ==
    m.legendary /\ m.last_stand_text # "" /\ ~m.last_stand_triggered

\* line 457: self.last_stand_hp_value or 1
LastStandHp(m) == IF m.last_stand_hp_value # 0 THEN m.last_stand_hp_value ELSE 1

MonsterInstance_apply_damage(m, amount) ==
    IF amount <= 0 \/ m.dead THEN m
    ELSE
        LET used == IF m.temp_hp > 0 THEN Min(m.temp_hp, amount) ELSE 0
            rest == amount - used
            hp1 == IF rest > 0 THEN m.hp_current - rest ELSE m.hp_current
            m1 == [m EXCEPT !.temp_hp = @ - used, !.hp_current = hp1]
        IN IF hp1 > 0 THEN remove_condition(m1, Dying)
           ELSE IF LastStandAvailable(m1)
           THEN remove_condition(
                    add_condition(
                        [m1 EXCEPT !.last_stand_triggered = TRUE,
                                   !.hp_current = LastStandHp(m1),
                                   !.dead = FALSE],
                        LastStand),
                    Dying)
           ELSE LET m2 == [m1 EXCEPT !.hp_current = 0, !.dead = TRUE]
                IN IF InList(m2.conditions, LastStand)
                   THEN remove_condition(m2, LastStand) ELSE m2

\* healing that is not capped at hp_max
MonsterInstance_apply_healing_uncapped(m, amount) ==
    IF amount <= 0 \/ m.dead THEN m
    ELSE [m EXCEPT !.hp_current = @ + amount]

\* healing that forgets the dead check
MonsterInstance_apply_healing_resurrects(m, amount) ==
    IF amount <= 0 THEN m
    ELSE LET hp1 == m.hp_current + amount
         IN [m EXCEPT !.hp_current = IF hp1 > m.hp_max THEN m.hp_max ELSE hp1]

MonsterInstance_apply_healing(m, amount) ==
    IF amount <= 0 \/ m.dead THEN m
    ELSE LET hp1 == m.hp_current + amount
         IN [m EXCEPT !.hp_current = IF hp1 > m.hp_max THEN m.hp_max ELSE hp1]

MonsterInstance_set_temp_hp(m, amount) == [m EXCEPT !.temp_hp = Max(0, amount)]

\* the library the monsters are created from
Templates ==
    [name : {"Drake"}, legendary : BOOLEAN, level : {<<"1">>},
     hp : {StrV(<<"3", " ", "H", "P">>), StrV(<<>>), StrV(<<"-", "1">>), FloatV(25)},
     last_stand : {"", "Rage"},
     last_stand_hp : {StrV(<<"x">>), IntV(2), StrV(<<" ", "4", " ", "H", "P">>),
                      StrV(<<"-", "1">>)}]

\* ------------------------------------------------------------------------
\* Status bands of Hero and MonsterInstance
\* ------------------------------------------------------------------------
\* hp_current <= hp_max * threshold is compared on the exact fractions: the
\* thresholds of the model are halves and quarters, and their products with
\* small integers are exact in float arithmetic

\* bloodied without the test against the critical threshold
is_bloodied_overlapping(e) ==
    LET bloodied == IF e.cls = "Hero" THEN config.hero_bloodied_threshold
                    ELSE config.monster_bloodied_threshold
    IN /\ e.hp_max > 0
       /\ e.hp_current > 0
       /\ e.hp_current * bloodied.d <= e.hp_max * bloodied.n

is_bloodied(e) ==
    LET bloodied == IF e.cls = "Hero" THEN config.hero_bloodied_threshold
                    ELSE config.monster_bloodied_threshold
        critical == IF e.cls = "Hero" THEN config.hero_critical_threshold
                    ELSE config.monster_critical_threshold
    IN /\ e.hp_max > 0
       /\ e.hp_current > 0
       /\ e.hp_current * bloodied.d <= e.hp_max * bloodied.n
       /\ e.hp_current * critical.d > e.hp_max * critical.n

is_critical(e) ==
    LET critical == IF e.cls = "Hero" THEN config.hero_critical_threshold
                    ELSE config.monster_critical_threshold
    IN /\ e.hp_max > 0
       /\ e.hp_current > 0
       /\ e.hp_current * critical.d <= e.hp_max * critical.n

\* ------------------------------------------------------------------------
\* Entity mutators as operations on one Hero or MonsterInstance
\* ------------------------------------------------------------------------
NoManager ==
    /\ monsters = <<>>
    /\ group_color_map = <<>>
    /\ marker_palette = <<>>
    /\ marker_start_number = 1
    /\ encounter_file = <<>>
    /\ arrived = <<>>
    /\ heroes = <<>>
    /\ monster_library = <<>>
    /\ disk = NoDisk
    /\ config = DefaultConfig
    /\ hooks = NoHooks
    /\ events = <<>>
    /\ returned = <<>>
    /\ capacity = 0

ManagerUnchanged ==
    UNCHANGED <<monsters, group_color_map, marker_palette, marker_start_number,
                encounter_file, arrived, heroes, monster_library, disk, config,
                hooks, events, returned, capacity>>

Called(op, amount, cond) == [op |-> op, amount |-> amount, cond |-> cond]

InitEntity ==
    /\ \/ \E hpmax \in 0 .. MaxHeroHp, hpspin \in 0 .. MaxHeroHp, temp \in 0 .. MaxHeroTemp,
             conds \in {<<>>, <<Dying>>, <<Dying, Dying>>} :
              ent = HeroRecord(hpmax, hpspin, temp, conds)
       \/ \E tpl \in Templates : ent = MonsterInstance_from_template(tpl)
    /\ call = Called("new", 0, <<>>)
    /\ pre = ent
    /\ NoManager

Step(op, amount, cond, result) ==
    /\ ent' = result
    /\ call' = Called(op, amount, cond)
    /\ pre' = ent
    /\ ManagerUnchanged

HeroApplyDamage ==
    \E a \in Amounts :
        ent.cls = "Hero" /\ Step("apply_damage", a, <<>>, Hero_apply_damage(ent, a))

HeroApplyHealing ==
    \E a \in Amounts :
        ent.cls = "Hero" /\ Step("apply_healing", a, <<>>, Hero_apply_healing(ent, a))

HeroSetTempHp ==
    \E a \in Amounts :
        ent.cls = "Hero" /\ Step("set_temp_hp", a, <<>>, Hero_set_temp_hp(ent, a))

MonsterApplyDamage ==
    \E a \in Amounts :
        /\ ent.cls = "MonsterInstance"
        /\ Step("apply_damage", a, <<>>, MonsterInstance_apply_damage(ent, a))

MonsterApplyHealing ==
    \E a \in Amounts :
        /\ ent.cls = "MonsterInstance"
        /\ Step("apply_healing", a, <<>>, MonsterInstance_apply_healing(ent, a))

MonsterSetTempHp ==
    \E a \in Amounts :
        /\ ent.cls = "MonsterInstance"
        /\ Step("set_temp_hp", a, <<>>, MonsterInstance_set_temp_hp(ent, a))

AddCondition ==
    \E c \in CondArgs : Step("add_condition", 0, c, add_condition(ent, c))

RemoveCondition ==
    \E c \in CondArgs : Step("remove_condition", 0, c, remove_condition(ent, c))

NextEntity ==
    \/ HeroApplyDamage
    \/ HeroApplyHealing
    \/ HeroSetTempHp
    \/ MonsterApplyDamage
    \/ MonsterApplyHealing
    \/ MonsterSetTempHp
    \/ AddCondition
    \/ RemoveCondition

SpecEntity == InitEntity /\ [][NextEntity]_vars

\* one Hero at full health or one MonsterInstance of the library, plain or
\* legendary with a last stand of 2 HP, under thresholds as shipped, with a critical half, with both
\* bands equal, with the critical band above the bloodied one, or both zero
InitStatus ==
    /\ \/ \E hpmax \in 0 .. MaxHeroHp : ent = HeroRecord(hpmax, hpmax, 0, <<>>)
       \/ \E tpl \in Templates :
              /\ tpl.last_stand_hp = IntV(2)
              /\ tpl.legendary <=> tpl.last_stand # ""
              /\ ent = MonsterInstance_from_template(tpl)
    /\ call = Called("new", 0, <<>>)
    /\ pre = ent
    /\ monsters = <<>>
    /\ group_color_map = <<>>
    /\ marker_palette = <<>>
    /\ marker_start_number = 1
    /\ encounter_file = <<>>
    /\ arrived = <<>>
    /\ heroes = <<>>
    /\ monster_library = <<>>
    /\ disk = NoDisk
    /\ \E bloodied \in {Rat(0, 1), Rat(1, 4), Rat(1, 2), Rat(1, 1)},
          critical \in {Rat(0, 1), Rat(1, 4), Rat(1, 2)} :
           /\ <<bloodied, critical>> \in
                  {<<Rat(1, 2), Rat(1, 4)>>, <<Rat(1, 1), Rat(1, 2)>>,
                   <<Rat(1, 2), Rat(1, 2)>>, <<Rat(1, 4), Rat(1, 2)>>,
                   <<Rat(0, 1), Rat(0, 1)>>}
           /\ config = [DefaultConfig EXCEPT !.hero_bloodied_threshold = bloodied,
                                             !.hero_critical_threshold = critical,
                                             !.monster_bloodied_threshold = bloodied,
                                             !.monster_critical_threshold = critical]
    /\ hooks = NoHooks
    /\ events = <<>>
    /\ returned = <<>>
    /\ capacity = 0

SpecStatus == InitStatus /\ [][NextEntity]_vars

\* ------------------------------------------------------------------------
\* CombatManager: marker assignment
\* ------------------------------------------------------------------------
White == "#FFFFFF"
Red == "#FF0000"
Blue == "#0000FF"
Green == "#00AA00"


EmptyMap == [g \in {} |-> ""]

MapPut(map, key, value) ==
    [g \in DOMAIN map \cup {key} |-> IF g = key THEN value ELSE map[g]]

\* a new group always takes the first palette colour
get_or_assign_group_color_no_round_robin(map, group) ==
    IF group \in DOMAIN map THEN [color |-> map[group], map |-> map]
    ELSE LET color == IF marker_palette = <<>> THEN White ELSE marker_palette[1]
         IN [color |-> color, map |-> MapPut(map, group, color)]

\* returns the colour and the updated group_color_map
get_or_assign_group_color(map, group) ==
    IF group \in DOMAIN map THEN [color |-> map[group], map |-> map]
    ELSE LET color ==
                 IF marker_palette = <<>> THEN White
                 ELSE marker_palette[(Cardinality(DOMAIN map) % Len(marker_palette)) + 1]
         IN [color |-> color, map |-> MapPut(map, group, color)]

RECURSIVE MaxFound(_, _, _)
\* the scan of lines 162-166
MaxFound(ms, color, acc) ==
    IF ms = <<>> THEN acc
    ELSE MaxFound(Tail(ms), color,
                  IF Head(ms).marker_color = color /\ Head(ms).marker_number > acc
                  THEN Head(ms).marker_number ELSE acc)

\* numbering by the count of the monsters of the colour
next_marker_number_for_color_by_count(ms, color) ==
    marker_start_number
        + Cardinality({i \in 1 .. Len(ms) : ms[i].marker_color = color})

next_marker_number_for_color(ms, color) ==
    LET max_found == MaxFound(ms, color, 0) IN
    IF max_found <= 0 THEN marker_start_number ELSE max_found + 1

\* returns the monster with its marker and the updated group_color_map
assign_marker_for_monster(ms, map, monster) ==
    LET auto == get_or_assign_group_color(map, monster.group)
        color == IF monster.marker_color # "" THEN monster.marker_color ELSE auto.color
        m1 == [monster EXCEPT !.marker_color = color]
    IN [map |-> auto.map,
        monster |-> IF monster.marker_number > 0 THEN m1
                    ELSE [m1 EXCEPT !.marker_number = next_marker_number_for_color(ms, color)]]

RECURSIVE FirstPass(_, _)
\* lines 211-215: each group's first non-empty colour
FirstPass(ms, map) ==
    IF ms = <<>> THEN map
    ELSE FirstPass(Tail(ms),
                   IF Head(ms).group \notin DOMAIN map /\ Head(ms).marker_color # ""
                   THEN MapPut(map, Head(ms).group, Head(ms).marker_color) ELSE map)

RECURSIVE SecondPass(_, _, _)
\* lines 218-222: colour the monsters that have none
SecondPass(todo, done, map) ==
    IF todo = <<>> THEN [monsters |-> done, map |-> map]
    ELSE IF Head(todo).marker_color = ""
    THEN LET got == get_or_assign_group_color(map, Head(todo).group)
         IN SecondPass(Tail(todo),
                       Append(done, [Head(todo) EXCEPT !.marker_color = got.color]),
                       got.map)
    ELSE SecondPass(Tail(todo), Append(done, Head(todo)), map)

\* a rebuild that stops after the first pass
rebuild_marker_maps_first_pass_only(ms) ==
    [monsters |-> ms, map |-> FirstPass(ms, EmptyMap)]

\* returns the recoloured monsters and the rebuilt group_color_map
rebuild_marker_maps(ms) == SecondPass(ms, <<>>, FirstPass(ms, EmptyMap))

\* the one library template monsters are added from
GoblinTemplate ==
    [name |-> "Goblin", legendary |-> FALSE, level |-> <<"1">>, hp |-> StrV(<<"2">>),
     last_stand |-> "", last_stand_hp |-> StrV(<<>>)]

\* group argument of add_monster_from_template: None or a string
GroupArgs == {<<>>} \cup {<<g>> : g \in {"", "A", "B"}}

WithMarker(m, group, color, number) ==
    [m EXCEPT !.group = group, !.marker_color = color, !.marker_number = number]

\* pre-built instances handed to add_monster_instance
Instances ==
    LET base == MonsterInstance_from_template(GoblinTemplate) IN
    {WithMarker(base, "B", "", 0),
     WithMarker(base, "A", "", 1),
     WithMarker(base, "A", Red, 1),
     WithMarker(base, "A", Green, 0)}

Arrival(m) == [marker_color |-> m.marker_color, marker_number |-> m.marker_number]

RECURSIVE Arrivals(_)
Arrivals(ms) == IF ms = <<>> THEN <<>> ELSE <<Arrival(Head(ms))>> \o Arrivals(Tail(ms))

\* ------------------------------------------------------------------------
\* Encounter files
\* ------------------------------------------------------------------------
MonsterFields ==
    {"name", "legendary", "level", "last_stand_text", "last_stand_hp_value",
     "hp_max", "hp_current", "temp_hp", "last_stand_triggered", "dead", "group",
     "active", "concentrating", "conditions", "marker_color", "marker_number"}

\* asdict(self): the instance as a key/value mapping
MonsterInstance_to_dict(m) == [k \in MonsterFields |-> m[k]]

filter_fields(data) == [k \in DOMAIN data \cap MonsterFields |-> data[k]]

\* cls(**data): missing keys take the dataclass defaults
MonsterInstance_from_dict(data) ==
    LET MonsterDefaults ==
            [last_stand_text |-> "", last_stand_hp_value |-> 0, hp_max |-> 0,
             hp_current |-> 0, temp_hp |-> 0, last_stand_triggered |-> FALSE,
             dead |-> FALSE, group |-> "", active |-> TRUE, concentrating |-> FALSE,
             conditions |-> <<>>, marker_color |-> "", marker_number |-> 0]
    IN [k \in MonsterFields \cup {"cls"} |->
           IF k = "cls" THEN "MonsterInstance"
           ELSE IF k \in DOMAIN data THEN data[k]
           ELSE MonsterDefaults[k]]

\* cls(**data) raises a TypeError when a field without default is missing
Constructible(data) == {"name", "legendary", "level"} \subseteq DOMAIN data

NoFile == [exists |-> FALSE, toplevel |-> "object", monsters |-> <<>>]

\* an encounter file written outside the program: an uncoloured monster,
\* a record with an unknown key and without the optional ones
ExternalFile ==
    [exists |-> TRUE,
     toplevel |-> "object",
     monsters |->
        <<MonsterInstance_to_dict(
              WithMarker(MonsterInstance_from_template(GoblinTemplate), "A", "", 0)),
          [name |-> "Goblin", legendary |-> FALSE, level |-> <<"1">>, id |-> "x1",
           group |-> "A", marker_color |-> Green, marker_number |-> 1]>>]

RECURSIVE LoadRecords(_)
\* lines 223-227: filter and construct each record
LoadRecords(ds) ==
    IF ds = <<>> THEN <<>>
    ELSE <<MonsterInstance_from_dict(filter_fields(Head(ds)))>> \o LoadRecords(Tail(ds))

\* ------------------------------------------------------------------------
\* Party, library and session files
\* ------------------------------------------------------------------------
\* a dict that leaves the conditions out
Hero_to_dict_without_conditions(h) ==
    [k \in {"name", "level", "hp_max", "hp_current", "temp_hp", "concentrating"} |-> h[k]]

\* asdict(self): the fields of the dataclass
Hero_to_dict(h) ==
    [k \in {"name", "level", "hp_max", "hp_current", "temp_hp", "conditions",
            "concentrating"} |-> h[k]]

\* Hero.from_dict(_filter_fields(data, Hero)): unknown keys are dropped,
\* missing keys take the dataclass defaults
Hero_from_dict(data) ==
    LET defaults == [level |-> 1, hp_max |-> 10, hp_current |-> 10, temp_hp |-> 0,
                     conditions |-> <<>>, concentrating |-> FALSE]
    IN [k \in DOMAIN defaults \cup {"name", "cls"} |->
           IF k = "cls" THEN "Hero"
           ELSE IF k \in DOMAIN data THEN data[k]
           ELSE defaults[k]]

\* the session file persistence.autosave_session writes
autosave_session(hs, ms) ==
    [exists |-> TRUE,
     toplevel |-> "object",
     heroes |-> [i \in 1 .. Len(hs) |-> Hero_to_dict(hs[i])],
     monsters |-> [i \in 1 .. Len(ms) |-> MonsterInstance_to_dict(ms[i])]]

\* a library entry as load_monster_library hands it to MonsterTemplate:
\* legendary defaults to False, keys that are no MonsterTemplate field are
\* dropped
LibraryEntry(e) ==
    LET fields == {"name", "legendary", "level", "hp", "last_stand", "last_stand_hp"}
        e1 == IF "legendary" \in DOMAIN e THEN e
              ELSE [k \in DOMAIN e \cup {"legendary"} |->
                       IF k = "legendary" THEN FALSE ELSE e[k]]
    IN [k \in DOMAIN e1 \cap fields |-> e1[k]]

\* party, library and session files written outside the program
ExternalDisk(party, hs, ms) ==
    [party |-> [exists |-> TRUE, toplevel |-> "object", heroes |-> party],
     library |->
        [exists |-> TRUE,
         toplevel |-> "object",
         monsters |-> <<[name |-> "Goblin", level |-> <<"1">>, hp |-> StrV(<<"2">>),
                         last_stand |-> "", last_stand_hp |-> StrV(<<>>),
                         file |-> "goblin.md"]>>],
     session |-> [exists |-> TRUE, toplevel |-> "object", heroes |-> hs,
                  monsters |-> ms]]

\* ------------------------------------------------------------------------
\* CombatManager: hooks, autosave and the events of a call
\* ------------------------------------------------------------------------
\* An invocation a call makes is a record: its kind, the message of a log,
\* and in arg the values the message is formatted from, the session an
\* autosave writes, the roster on_state_changed finds, or the creature of
\* a concentration note.

\* _log(msg): one on_log invocation when the hook is set
log(msg, arg) ==
    IF hooks.on_log = "none" THEN <<>>
    ELSE <<[kind |-> "on_log", msg |-> msg, arg |-> arg]>>

\* an autosave that writes the roster the call started from
autosave_before_mutation(hs, ms) ==
    IF ~config.autosave_enabled THEN <<>>
    ELSE <<[kind |-> "autosave", msg |-> "",
            arg |-> autosave_session(heroes, monsters)]>>

\* autosave(): one write of the session file unless disabled
autosave(hs, ms) ==
    IF ~config.autosave_enabled THEN <<>>
    ELSE <<[kind |-> "autosave", msg |-> "", arg |-> autosave_session(hs, ms)]>>

\* lines 122-123 and 474-475
state_changed(hs, ms) ==
    IF hooks.on_state_changed = "none" THEN <<>>
    ELSE <<[kind |-> "on_state_changed", msg |-> "",
            arg |-> [heroes |-> hs, monsters |-> ms]]>>

\* on_state_changed invoked before the autosave write
changed_notifies_first(hs, ms) == state_changed(hs, ms) \o autosave(hs, ms)

\* _changed() without the autosave
changed_skips_autosave(hs, ms) == state_changed(hs, ms)

\* the tail of load_session followed by an autosave
session_loaded_autosaves(hs, ms) == state_changed(hs, ms) \o autosave(hs, ms)

\* lines 473-475: load_session notifies without going through _changed()
session_loaded(hs, ms) == state_changed(hs, ms)

\* _changed()
changed(hs, ms) == autosave(hs, ms) \o state_changed(hs, ms)

\* _notify_concentration_note(creature): a raising hook is caught and logged
notify_concentration_note(creature) ==
    IF hooks.on_concentration_note = "none" THEN <<>>
    ELSE <<[kind |-> "on_concentration_note", msg |-> "", arg |-> creature]>>
         \o (IF hooks.on_concentration_note = "raises"
             THEN log("Concentration note handler failed", <<>>) ELSE <<>>)

\* a raising on_state_changed that is caught like the concentration hook
Raised_swallowed(evs) == ""

\* on_state_changed is not guarded: when it raises the call raises
Raised(evs) ==
    IF hooks.on_state_changed = "raises"
       /\ \E i \in 1 .. Len(evs) : evs[i].kind = "on_state_changed"
    THEN "HookError" ELSE ""

MCalled(op, index, raised) == [op |-> op, index |-> index, raised |-> raised]

\* what a call leaves besides its mutation: the invocations it made, in
\* order, the session file of its last autosave write, the exception
Returns(op, index, evs) ==
    LET saves == {i \in 1 .. Len(evs) : evs[i].kind = "autosave"} IN
    /\ events' = evs
    /\ disk' = IF saves = {} THEN disk
                ELSE [disk EXCEPT !.session =
                         evs[CHOOSE i \in saves : \A j \in saves : j <= i].arg]
    /\ call' = MCalled(op, index, Raised(evs))
    /\ returned' = <<>>

\* the exception of the persistence layer wrapped into one of the manager
Raises_wrapped(op, exception) ==
    /\ events' = <<>>
    /\ call' = MCalled(op, 0, "LoadError")
    /\ returned' = <<>>
    /\ UNCHANGED <<heroes, monsters, group_color_map, arrived, monster_library, disk>>

\* a load that has emptied the roster by the time it raises
Raises_roster_cleared(op, exception) ==
    /\ events' = <<>>
    /\ call' = MCalled(op, 0, exception)
    /\ returned' = <<>>
    /\ heroes' = <<>>
    /\ monsters' = <<>>
    /\ arrived' = <<>>
    /\ UNCHANGED <<group_color_map, monster_library, disk>>

\* a call that raises before it changes anything
Raises(op, exception) ==
    /\ events' = <<>>
    /\ call' = MCalled(op, 0, exception)
    /\ returned' = <<>>
    /\ UNCHANGED <<heroes, monsters, group_color_map, arrived, monster_library, disk>>

Settings ==
    <<ent, pre, marker_palette, marker_start_number, encounter_file, config, hooks,
      capacity>>

\* the roster a call would leave stays within the bound of the run
Fits(hs, ms) == Len(hs) + Len(ms) <= capacity

\* ------------------------------------------------------------------------
\* CombatManager operations
\* ------------------------------------------------------------------------
QuietConfig == [DefaultConfig EXCEPT !.autosave_enabled = FALSE]

InitManager ==
    /\ monsters = <<>>
    /\ group_color_map = EmptyMap
    /\ arrived = <<>>
    /\ call = MCalled("new", 0, "")
    /\ pre = <<>>
    /\ ent = <<>>
    /\ heroes = <<>>
    /\ events = <<>>
    /\ returned = <<>>

InitInsert ==
    /\ InitManager
    /\ capacity = MaxMonsters
    /\ monster_library = <<>>
    \* config.CONFIG.marker_palette and marker_start_number at construction
    /\ marker_palette \in {<<>>, <<White, Red>>, <<White, Red, Blue>>}
    /\ marker_start_number \in {0, 1, 2}
    /\ encounter_file = NoFile
    /\ disk = NoDisk
    /\ config = QuietConfig
    /\ hooks = NoHooks

InitMarkers ==
    /\ InitManager
    /\ capacity = MaxMonsters
    /\ monster_library = <<>>
    /\ marker_palette = <<White, Red>>
    /\ marker_start_number \in {1, 2}
    /\ \/ encounter_file = NoFile /\ disk = NoDisk
       \/ /\ encounter_file = ExternalFile
          \* session monsters: a group without any colour ahead of the
          \* coloured record of the encounter file
          /\ disk = ExternalDisk(<<>>, <<>>,
                 <<MonsterInstance_to_dict(
                       WithMarker(MonsterInstance_from_template(GoblinTemplate),
                                  "B", "", 2)),
                   ExternalFile.monsters[2]>>)
    /\ config = QuietConfig
    /\ hooks = NoHooks

\* the tail of the two add methods: assign the marker, append, _log, _changed
Insert(op, m) ==
    LET got == assign_marker_for_monster(monsters, group_color_map, m)
        ms == Append(monsters, got.monster)
    IN /\ Fits(heroes, ms)
       /\ got.monster.marker_number <= MaxMarkerNumber
       /\ monsters' = ms
       /\ group_color_map' = got.map
       /\ arrived' = Append(arrived, Arrival(m))
       /\ Returns(op, Len(ms), log("Monster added", got.monster.marker_number) \o changed(heroes, ms))
       /\ UNCHANGED <<heroes, monster_library, Settings>>

AddMonsterFromTemplate(template, group) ==
    LET m == MonsterInstance_from_template(template) IN
    Insert("add_monster_from_template",
           IF group # <<>> THEN [m EXCEPT !.group = group[1]] ELSE m)

add_monster_from_template ==
    \E group \in GroupArgs : AddMonsterFromTemplate(GoblinTemplate, group)

add_monster_instance ==
    \E instance \in Instances : Insert("add_monster_instance", instance)

RECURSIVE IndexOf(_, _, _)
\* position of the first element equal to x, 0 if there is none
IndexOf(s, x, i) ==
    IF i > Len(s) THEN 0 ELSE IF s[i] = x THEN i ELSE IndexOf(s, x, i + 1)

RemoveAt(s, i) == SubSeq(s, 1, i - 1) \o SubSeq(s, i + 1, Len(s))

\* remove_monster(monster): nothing at all when no roster entry equals it
RemoveMonster(m, index) ==
    LET j == IndexOf(monsters, m, 1)
        ms == IF j = 0 THEN monsters ELSE RemoveAt(monsters, j)
    IN /\ monsters' = ms
       /\ arrived' = IF j = 0 THEN arrived ELSE RemoveAt(arrived, j)
       /\ Returns("remove_monster", index,
                  IF j = 0 THEN <<>>
                  ELSE log("Monster removed", m.name) \o changed(heroes, ms))
       /\ UNCHANGED <<heroes, group_color_map, monster_library, Settings>>

\* remove_monster(monster) for the monster object at position i of the roster
remove_monster == \E i \in 1 .. Len(monsters) : RemoveMonster(monsters[i], i)

\* the monster a removal or a combat action is handed: the object at
\* position i of the roster, or for i = 0 an instance that was never added
MonsterArg(i) ==
    IF i = 0 THEN MonsterInstance_from_template(GoblinTemplate) ELSE monsters[i]

\* remove_monster(monster) for an instance that was never added
remove_absent_monster == RemoveMonster(MonsterArg(0), 0)

load_encounter ==
    IF ~encounter_file.exists
    THEN Raises("load_encounter", "FileNotFoundError") /\ UNCHANGED Settings
    \* persistence.py 218-219: the top-level value must be an object
    ELSE IF encounter_file.toplevel # "object"
    THEN Raises("load_encounter", "ValueError") /\ UNCHANGED Settings
    ELSE IF \E i \in 1 .. Len(encounter_file.monsters) :
                ~Constructible(filter_fields(encounter_file.monsters[i]))
    THEN Raises("load_encounter", "TypeError") /\ UNCHANGED Settings
    ELSE LET loaded == LoadRecords(encounter_file.monsters)
             rebuilt == rebuild_marker_maps(loaded)
         IN /\ Fits(heroes, loaded)
            /\ monsters' = rebuilt.monsters
            /\ group_color_map' = rebuilt.map
            /\ arrived' = Arrivals(loaded)
            /\ Returns("load_encounter", 0,
                       log("Loaded encounter", Len(loaded))
                       \o changed(heroes, rebuilt.monsters))
            /\ UNCHANGED <<heroes, monster_library, Settings>>

\* load_session() from the autosave path; a missing file is an empty session
load_session ==
    LET file == disk.session IN
    \* persistence.py 273-275: the top-level value of a file that is there
    \* must be an object
    IF file.exists /\ file.toplevel # "object"
    THEN Raises("load_session", "ValueError") /\ UNCHANGED Settings
    \* Hero(**data) without a name, MonsterInstance(**data) without a
    \* required field
    ELSE IF \/ \E i \in 1 .. Len(file.heroes) : "name" \notin DOMAIN file.heroes[i]
       \/ \E i \in 1 .. Len(file.monsters) :
              ~Constructible(filter_fields(file.monsters[i]))
    THEN Raises("load_session", "TypeError") /\ UNCHANGED Settings
    ELSE LET hs == [i \in 1 .. Len(file.heroes) |-> Hero_from_dict(file.heroes[i])]
             loaded == LoadRecords(file.monsters)
             rebuilt == rebuild_marker_maps(loaded)
         IN /\ Fits(hs, loaded)
            /\ heroes' = hs
            /\ monsters' = rebuilt.monsters
            /\ group_color_map' = rebuilt.map
            /\ arrived' = Arrivals(loaded)
            /\ Returns("load_session", 0,
                       log("Session loaded", <<Len(hs), Len(loaded)>>)
                       \o session_loaded(hs, rebuilt.monsters))
            /\ UNCHANGED <<monster_library, Settings>>

NextInsert ==
    \/ add_monster_from_template
    \/ add_monster_instance

SpecInsert == InitInsert /\ [][NextInsert]_vars

NextMarkers ==
    \/ add_monster_from_template
    \/ add_monster_instance
    \/ remove_monster
    \/ remove_absent_monster
    \/ load_encounter

SpecMarkers == InitMarkers /\ [][NextMarkers]_vars

\* the loads, each over a roster built through the library
NextLoad ==
    \/ add_monster_from_template
    \/ remove_monster
    \/ load_encounter
    \/ load_session

SpecLoad == InitMarkers /\ [][NextLoad]_vars

\* a roster that grows through the library and shrinks by removals
NextRoster ==
    \/ add_monster_from_template
    \/ remove_monster

SpecRoster == InitInsert /\ [][NextRoster]_vars

\* ------------------------------------------------------------------------
\* CombatManager: heroes, combat actions and the remaining loads
\* ------------------------------------------------------------------------
\* add_hero(hero) with a hero as the hero dialog builds it
add_hero ==
    \E concentrating \in BOOLEAN :
        LET hero == [HeroRecord(2, 2, 0, <<>>) EXCEPT !.concentrating = concentrating]
            hs == Append(heroes, hero)
        IN /\ Fits(hs, monsters)
           /\ heroes' = hs
           /\ Returns("add_hero", Len(hs),
                      log("Hero added", hero.name) \o changed(hs, monsters))
           /\ UNCHANGED <<monsters, group_color_map, arrived, monster_library, Settings>>

\* the hero a removal or a combat action is handed: the object at
\* position i of the roster, or for i = 0 one that was never added
HeroArg(i) == IF i = 0 THEN HeroRecord(2, 2, 0, <<>>) ELSE heroes[i]

\* remove_hero(hero): nothing at all when no roster entry equals it
remove_hero ==
    \E i \in 0 .. Len(heroes) :
        LET hero == HeroArg(i)
            j == IndexOf(heroes, hero, 1)
            hs == IF j = 0 THEN heroes ELSE RemoveAt(heroes, j)
        IN /\ heroes' = hs
           /\ Returns("remove_hero", i,
                      IF j = 0 THEN <<>>
                      ELSE log("Hero removed", hero.name) \o changed(hs, monsters))
           /\ UNCHANGED <<monsters, group_color_map, arrived, monster_library, Settings>>

\* add_monster_from_template(template) with a template of the library
add_monster_from_library ==
    \E i \in 1 .. Len(monster_library) :
        AddMonsterFromTemplate(monster_library[i], <<>>)

add_monster_instance_concentrating ==
    Insert("add_monster_instance", [MonsterArg(0) EXCEPT !.concentrating = TRUE])

\* a combat action on a hero: the mutated object, the logs, then _changed()
HeroAction(op, i, hero, logs) ==
    LET hs == IF i = 0 THEN heroes ELSE [heroes EXCEPT ![i] = hero] IN
    /\ heroes' = hs
    /\ Returns(op, i, logs \o changed(hs, monsters))
    /\ UNCHANGED <<monsters, group_color_map, arrived, monster_library, Settings>>

MonsterAction(op, i, monster, logs) ==
    LET ms == IF i = 0 THEN monsters ELSE [monsters EXCEPT ![i] = monster] IN
    /\ monsters' = ms
    /\ Returns(op, i, logs \o changed(heroes, ms))
    /\ UNCHANGED <<heroes, group_color_map, arrived, monster_library, Settings>>

damage_hero ==
    \E i \in 0 .. Len(heroes), amount \in {0, 2} :
        LET hero == Hero_apply_damage(HeroArg(i), amount) IN
        HeroAction("damage_hero", i, hero,
            (IF config.log_damage_events
             THEN log("Hero takes damage", amount) ELSE <<>>)
            \o (IF hero.hp_current <= 0 /\ config.log_deaths
                THEN log("Hero is DYING", <<>>) ELSE <<>>)
            \o (IF hero.concentrating THEN notify_concentration_note(hero) ELSE <<>>))

heal_hero ==
    \E i \in 0 .. Len(heroes), amount \in {0, 2} :
        LET hero == Hero_apply_healing(HeroArg(i), amount) IN
        HeroAction("heal_hero", i, hero,
            IF config.log_heal_events
            THEN log("Hero heals", amount) ELSE <<>>)

\* the temporary HP rules are checked on the entities themselves; the
\* manager's calls are made with amounts that leave none
set_hero_temp_hp ==
    \E i \in 0 .. Len(heroes), amount \in {0 - 1, 0} :
        HeroAction("set_hero_temp_hp", i, Hero_set_temp_hp(HeroArg(i), amount),
            IF config.log_condition_changes
            THEN log("Hero gains temporary HP", amount) ELSE <<>>)

add_hero_condition ==
    \E i \in 0 .. Len(heroes), cond \in {Dying} :
        HeroAction("add_hero_condition", i, add_condition(HeroArg(i), cond),
            IF config.log_condition_changes
            THEN log("Hero gains condition", cond) ELSE <<>>)

remove_hero_condition ==
    \E i \in 0 .. Len(heroes), cond \in {Dying} :
        HeroAction("remove_hero_condition", i, remove_condition(HeroArg(i), cond),
            IF config.log_condition_changes
            THEN log("Hero loses condition", cond) ELSE <<>>)

damage_monster ==
    \E i \in 0 .. Len(monsters), amount \in {0, 2} :
        LET monster == MonsterInstance_apply_damage(MonsterArg(i), amount) IN
        MonsterAction("damage_monster", i, monster,
            (IF config.log_damage_events
             THEN log("Monster takes damage", amount)
             ELSE <<>>)
            \o (IF monster.last_stand_triggered /\ ~monster.dead
                   /\ config.log_last_stand_triggers
                THEN log("triggers LAST STAND", monster.last_stand_hp_value) ELSE <<>>)
            \o (IF monster.dead /\ config.log_deaths
                THEN log("Monster is DEAD", <<>>) ELSE <<>>))

heal_monster ==
    \E i \in 0 .. Len(monsters), amount \in {0, 2} :
        LET monster == MonsterInstance_apply_healing(MonsterArg(i), amount) IN
        MonsterAction("heal_monster", i, monster,
            IF config.log_heal_events
            THEN log("Monster heals", amount) ELSE <<>>)

set_monster_temp_hp ==
    \E i \in 0 .. Len(monsters), amount \in {0 - 1, 0} :
        MonsterAction("set_monster_temp_hp", i,
            MonsterInstance_set_temp_hp(MonsterArg(i), amount),
            IF config.log_condition_changes
            THEN log("Monster gains temporary HP", amount) ELSE <<>>)

add_monster_condition ==
    \E i \in 0 .. Len(monsters), cond \in {Dying} :
        MonsterAction("add_monster_condition", i, add_condition(MonsterArg(i), cond),
            IF config.log_condition_changes
            THEN log("Monster gains condition", cond) ELSE <<>>)

remove_monster_condition ==
    \E i \in 0 .. Len(monsters), cond \in {Dying} :
        MonsterAction("remove_monster_condition", i,
            remove_condition(MonsterArg(i), cond),
            IF config.log_condition_changes
            THEN log("Monster loses condition", cond) ELSE <<>>)

load_monster_library ==
    IF ~disk.library.exists
    THEN Raises("load_monster_library", "FileNotFoundError") /\ UNCHANGED Settings
    \* persistence.py 145-146: a list, or an object with its lists
    ELSE IF disk.library.toplevel \notin {"object", "array"}
    THEN Raises("load_monster_library", "ValueError") /\ UNCHANGED Settings
    ELSE LET entries == disk.library.monsters
             library == [i \in 1 .. Len(entries) |-> LibraryEntry(entries[i])]
         IN
         \* MonsterTemplate has no defaults: every field must be there
         IF \E i \in 1 .. Len(library) : DOMAIN library[i] # DOMAIN GoblinTemplate
         THEN Raises("load_monster_library", "TypeError") /\ UNCHANGED Settings
         ELSE
         /\ monster_library' = library
         /\ Returns("load_monster_library", 0,
                    log("Loaded library", Len(library)) \o changed(heroes, monsters))
         /\ UNCHANGED <<heroes, monsters, group_color_map, arrived, Settings>>

load_party ==
    IF ~disk.party.exists
    THEN Raises("load_party", "FileNotFoundError") /\ UNCHANGED Settings
    \* persistence.py 183-184: the top-level value must be an object
    ELSE IF disk.party.toplevel # "object"
    THEN Raises("load_party", "ValueError") /\ UNCHANGED Settings
    ELSE IF \E i \in 1 .. Len(disk.party.heroes) :
                "name" \notin DOMAIN disk.party.heroes[i]
    THEN Raises("load_party", "TypeError") /\ UNCHANGED Settings
    ELSE LET hs == [i \in 1 .. Len(disk.party.heroes) |->
                       Hero_from_dict(disk.party.heroes[i])]
         IN
         /\ Fits(hs, monsters)
         /\ heroes' = hs
         /\ Returns("load_party", 0,
                    log("Loaded party", Len(hs)) \o changed(hs, monsters))
         /\ UNCHANGED <<monsters, group_color_map, arrived, monster_library, Settings>>

\* a manager whose library was loaded at start-up, with its files next to
\* it or with none of them there; the hooks are all set and return, or one
\* of them raises, or none is set
InitNotify ==
    LET AllHooks == [on_log |-> "ok", on_state_changed |-> "ok",
                     on_concentration_note |-> "ok"]
        \* the hero of the party file
        Ayla == [name |-> "Ayla", hp_max |-> 2, hp_current |-> 2, id |-> "h1"]
        \* an encounter file with one uncoloured monster
        SmallFile == [ExternalFile EXCEPT !.monsters = <<ExternalFile.monsters[1]>>]
        files == ExternalDisk(<<Ayla>>, <<>>, SmallFile.monsters)
    IN /\ InitManager
       /\ capacity = MaxCombatants
       /\ marker_palette = <<White, Red>>
       /\ marker_start_number = 1
       /\ monster_library = <<LibraryEntry(files.library.monsters[1])>>
       /\ \/ /\ config = DefaultConfig
             /\ hooks \in {AllHooks, [AllHooks EXCEPT !.on_concentration_note = "raises"]}
             /\ encounter_file = SmallFile
             /\ disk = files
          \/ /\ config = DefaultConfig
             /\ hooks = [AllHooks EXCEPT !.on_state_changed = "raises"]
             /\ encounter_file = NoFile
             /\ disk = NoDisk
          \/ /\ config = QuietConfig /\ hooks = NoHooks
             /\ encounter_file = SmallFile
             /\ disk = files

\* the caller is back in the event loop: the outcome of the last call has
\* been looked at and the next call can be made
AtRest == call.op \in {"new", "rest"}

Rest ==
    /\ ~AtRest
    /\ call' = MCalled("rest", 0, "")
    /\ events' = <<>>
    /\ returned' = <<>>
    /\ UNCHANGED <<heroes, monsters, group_color_map, arrived, monster_library, disk,
                   Settings>>

NextNotify ==
    \/ Rest
    \/ AtRest /\ add_hero
    \/ AtRest /\ remove_hero
    \/ AtRest /\ add_monster_from_library
    \/ AtRest /\ add_monster_instance_concentrating
    \/ AtRest /\ remove_monster
    \/ AtRest /\ remove_absent_monster
    \/ AtRest /\ damage_hero
    \/ AtRest /\ heal_hero
    \/ AtRest /\ set_hero_temp_hp
    \/ AtRest /\ add_hero_condition
    \/ AtRest /\ remove_hero_condition
    \/ AtRest /\ damage_monster
    \/ AtRest /\ heal_monster
    \/ AtRest /\ set_monster_temp_hp
    \/ AtRest /\ add_monster_condition
    \/ AtRest /\ remove_monster_condition
    \/ AtRest /\ load_monster_library
    \/ AtRest /\ load_party
    \/ AtRest /\ load_encounter
    \/ AtRest /\ load_session

SpecNotify == InitNotify /\ [][NextNotify]_vars

\* ------------------------------------------------------------------------
\* Encounter difficulty
\* ------------------------------------------------------------------------
\* The floats of the difficulty code are kept as exact fractions in lowest
\* terms.  The levels and thresholds of the model (halves, quarters, tenths
\* of small integers) are summed exactly by the float arithmetic, and a
\* correctly rounded quotient compares with a threshold that is a float as
\* the exact quotient does.
Norm(n, d) ==
    LET RECURSIVE GCD(_, _)
        GCD(a, b) == IF b = 0 THEN a ELSE GCD(b, a % b)
        g == GCD(IF n < 0 THEN 0 - n ELSE n, d)
    IN IF n < 0 THEN Rat(0 - ((0 - n) \div g), d \div g) ELSE Rat(n \div g, d \div g)

RatAdd(a, b) == Norm(a.n * b.d + b.n * a.d, a.d * b.d)
RatLt(a, b) == a.n * b.d < b.n * a.d

\* what a computation comes to: the exception it raises, or "" and its value
Outcome(raised, value) == [raised |-> raised, value |-> value]

\* float(token) on the tokens of the model (digits, sign, point, slash,
\* letters other than those of an exponent, inf or nan): an optional sign,
\* then digits with an optional point, at least one digit in all; anything
\* else is a ValueError
float_of(tok) ==
    LET RECURSIVE Pow10(_)
        Pow10(k) == IF k = 0 THEN 1 ELSE 10 * Pow10(k - 1)
        signed == tok # <<>> /\ Head(tok) \in {"+", "-"}
        body == IF signed THEN Tail(tok) ELSE tok
        sign == IF signed /\ Head(tok) = "-" THEN 0 - 1 ELSE 1
        dot == IndexOf(body, ".", 1)
        whole == SubSeq(body, 1, dot - 1)
        frac == SubSeq(body, dot + 1, Len(body))
    IN IF dot = 0
       THEN IF IsDigits(body) THEN Outcome("", Rat(sign * DigitsVal(body, 0), 1))
            ELSE Outcome("ValueError", Rat(0, 1))
       ELSE IF /\ \A i \in 1 .. Len(whole) : whole[i] \in Digits
               /\ \A i \in 1 .. Len(frac) : frac[i] \in Digits
               /\ Len(body) > 1
       THEN Outcome("", Norm(sign * (DigitsVal(whole, 0) * Pow10(Len(frac))
                                        + DigitsVal(frac, 0)),
                             Pow10(Len(frac))))
       ELSE Outcome("ValueError", Rat(0, 1))

\* float(Fraction(token)) on a token that holds a slash: an optional sign,
\* digits, the slash, digits; anything else is a ValueError, a denominator
\* of zero a ZeroDivisionError
Fraction_of(tok) ==
    LET signed == tok # <<>> /\ Head(tok) \in {"+", "-"}
        body == IF signed THEN Tail(tok) ELSE tok
        sign == IF signed /\ Head(tok) = "-" THEN 0 - 1 ELSE 1
        slash == IndexOf(body, "/", 1)
        numerator == SubSeq(body, 1, slash - 1)
        denominator == SubSeq(body, slash + 1, Len(body))
    IN IF ~(IsDigits(numerator) /\ IsDigits(denominator))
       THEN Outcome("ValueError", Rat(0, 1))
       ELSE IF DigitsVal(denominator, 0) = 0
       THEN Outcome("ZeroDivisionError", Rat(0, 1))
       ELSE Outcome("", Norm(sign * DigitsVal(numerator, 0), DigitsVal(denominator, 0)))

\* _parse_level_value(level) for a level held as a string, as MonsterTemplate
\* and MonsterInstance declare it
parse_level_value(level) ==
    LET raw == Strip(level)
        token == FirstToken(raw)
    IN IF raw = <<>> THEN Outcome("", Rat(0, 1))
       ELSE IF IndexOf(token, "/", 1) # 0 THEN Fraction_of(token)
       ELSE float_of(token)

RECURSIVE total_hero_levels(_)
total_hero_levels(hs) ==
    IF hs = <<>> THEN 0 ELSE Head(hs).level + total_hero_levels(Tail(hs))

\* the loop of total_monster_levels from the monsters still to visit and
\* the running total, that also adds the dead
RECURSIVE SumLevels_counts_dead(_, _)
SumLevels_counts_dead(ms, total) ==
    IF ms = <<>> THEN Outcome("", total)
    ELSE LET got == parse_level_value(Head(ms).level) IN
         IF got.raised = "" THEN SumLevels_counts_dead(Tail(ms), RatAdd(total, got.value))
         ELSE IF got.raised \in {"ValueError", "TypeError"}
         THEN SumLevels_counts_dead(Tail(ms), total)
         ELSE Outcome(got.raised, Rat(0, 1))

\* the loop of total_monster_levels from the monsters still to visit and
\* the running total: the dead are passed over, a ValueError or TypeError
\* of the parse is caught, any other exception ends the call
RECURSIVE SumLevels(_, _)
SumLevels(ms, total) ==
    IF ms = <<>> THEN Outcome("", total)
    ELSE IF Head(ms).dead THEN SumLevels(Tail(ms), total)
    ELSE LET got == parse_level_value(Head(ms).level) IN
         IF got.raised = "" THEN SumLevels(Tail(ms), RatAdd(total, got.value))
         ELSE IF got.raised \in {"ValueError", "TypeError"} THEN SumLevels(Tail(ms), total)
         ELSE Outcome(got.raised, Rat(0, 1))

DifficultyRatio(hs, ms) ==
    LET hero_total == total_hero_levels(hs)
        monster_total == SumLevels(ms, Rat(0, 1))
    IN IF hero_total = 0 THEN Outcome("", Rat(0, 1))
       ELSE IF monster_total.raised # "" THEN monster_total
       ELSE Outcome("", Norm(monster_total.value.n, monster_total.value.d * hero_total))

\* the label of a ratio with "Deadly" ending below deadly_max
LabelOfRatio_deadly_exclusive(ratio) ==
    IF ratio = Rat(0, 1) THEN "No Encounter"
    ELSE IF RatLt(ratio, config.encounter_difficulty_easy) THEN "Easy"
    ELSE IF RatLt(ratio, config.encounter_difficulty_medium) THEN "Medium"
    ELSE IF RatLt(ratio, config.encounter_difficulty_hard) THEN "Hard"
    ELSE IF RatLt(ratio, config.encounter_difficulty_deadly_max) THEN "Deadly"
    ELSE "Very Deadly"

\* the chain of comparisons of encounter_difficulty_label
LabelOfRatio(ratio) ==
    IF ratio = Rat(0, 1) THEN "No Encounter"
    ELSE IF RatLt(ratio, config.encounter_difficulty_easy) THEN "Easy"
    ELSE IF RatLt(ratio, config.encounter_difficulty_medium) THEN "Medium"
    ELSE IF RatLt(ratio, config.encounter_difficulty_hard) THEN "Hard"
    ELSE IF ~RatLt(config.encounter_difficulty_deadly_max, ratio) THEN "Deadly"
    ELSE "Very Deadly"

DifficultyLabel(hs, ms) ==
    LET ratio == DifficultyRatio(hs, ms) IN
    IF ratio.raised # "" THEN ratio ELSE Outcome("", LabelOfRatio(ratio.value))

\* a query: nothing of the manager changes, no hook is invoked
Query(op, outcome) ==
    /\ call' = MCalled(op, 0, outcome.raised)
    /\ returned' = IF outcome.raised = "" THEN <<outcome.value>> ELSE <<>>
    /\ events' = <<>>
    /\ UNCHANGED <<heroes, monsters, group_color_map, arrived, monster_library, disk,
                   Settings>>

total_monster_levels == Query("total_monster_levels", SumLevels(monsters, Rat(0, 1)))

encounter_difficulty_ratio ==
    Query("encounter_difficulty_ratio", DifficultyRatio(heroes, monsters))

encounter_difficulty_label ==
    Query("encounter_difficulty_label", DifficultyLabel(heroes, monsters))

\* add_hero(hero) with a hero of the level the hero dialog's spin box holds
add_hero_of_level ==
    \E level \in {10} :
        LET hero == [HeroRecord(2, 2, 0, <<>>) EXCEPT !.level = level]
            hs == Append(heroes, hero)
        IN /\ Fits(hs, monsters)
           /\ heroes' = hs
           /\ Returns("add_hero", Len(hs),
                      log("Hero added", hero.name) \o changed(hs, monsters))
           /\ UNCHANGED <<monsters, group_color_map, arrived, monster_library, Settings>>

\* the Active check box of a combat table row: the flag, then _changed()
on_checkbox_changed_with_monster ==
    \E i \in 1 .. Len(monsters), checked \in BOOLEAN :
        MonsterAction("on_checkbox_changed_with_monster", i,
                      [monsters[i] EXCEPT !.active = checked], <<>>)

\* a manager with its library loaded: one whose levels are all plain
\* numbers, or one as the vault files give it, with a fraction, trailing
\* text, a zero denominator, text, nothing, and a legendary monster
InitDifficulty ==
    LET LibraryOf(levels) ==
            [i \in 1 .. Len(levels) |-> [GoblinTemplate EXCEPT !.level = levels[i]]]
        DragonTemplate ==
            [name |-> "Dragon", legendary |-> TRUE, level |-> <<"5">>,
             hp |-> StrV(<<"2">>), last_stand |-> "Rage", last_stand_hp |-> IntV(1)]
        NumericLibrary ==
            LibraryOf(<<<<"4">>, <<"5">>, <<"7", ".", "5">>, <<"1", "0">>,
                        <<"1", "2", ".", "5">>, <<"1", "3">>>>)
        VaultLibrary ==
            LibraryOf(<<<<"4">>, <<"1", "/", "2">>, <<" ", "3", " ", "x">>,
                        <<"1", "/", "0">>, <<"a", "b", "c">>, <<>>>>)
                \o <<DragonTemplate>>
    IN /\ InitManager
       /\ capacity = MaxEncounter
       /\ marker_palette = <<White, Red>>
       /\ marker_start_number = 1
       /\ monster_library \in {NumericLibrary, VaultLibrary}
       /\ encounter_file = NoFile
       /\ disk = NoDisk
       /\ config = QuietConfig
       /\ hooks = NoHooks

NextDifficulty ==
    \/ Rest
    \/ AtRest /\ add_hero_of_level
    \/ AtRest /\ add_monster_from_library
    \/ AtRest /\ damage_monster
    \/ AtRest /\ on_checkbox_changed_with_monster
    \/ AtRest /\ total_monster_levels
    \/ AtRest /\ encounter_difficulty_ratio
    \/ AtRest /\ encounter_difficulty_label

SpecDifficulty == InitDifficulty /\ [][NextDifficulty]_vars

\* ------------------------------------------------------------------------
\* CombatManager: saving, and loading what was saved or found
\* ------------------------------------------------------------------------
\* save_party(path): the party file is written and the save logged;
\* _changed() is not called
save_party ==
    /\ disk' = [disk EXCEPT !.party =
                    [exists |-> TRUE,
                     toplevel |-> "object",
                     heroes |-> [i \in 1 .. Len(heroes) |-> Hero_to_dict(heroes[i])]]]
    /\ events' = log("Saved party", "Party")
    /\ call' = MCalled("save_party", 0, "")
    /\ returned' = <<>>
    /\ UNCHANGED <<heroes, monsters, group_color_map, arrived, monster_library,
                   Settings>>

\* save_encounter(path), written to the file load_encounter reads
save_encounter ==
    /\ encounter_file' =
           [exists |-> TRUE,
            toplevel |-> "object",
            monsters |-> [i \in 1 .. Len(monsters) |->
                             MonsterInstance_to_dict(monsters[i])]]
    /\ events' = log("Saved encounter", "Encounter")
    /\ call' = MCalled("save_encounter", 0, "")
    /\ returned' = <<>>
    /\ UNCHANGED <<heroes, monsters, group_color_map, arrived, monster_library, disk,
                   ent, pre, marker_palette, marker_start_number, config, hooks,
                   capacity>>

\* a manager with all hooks set, autosave enabled or not, whose files were
\* written outside the program (with an unknown key in their records), are
\* missing, hold a top-level value of the wrong type, or hold a record
\* without a field that has no default
InitFiles ==
    LET Ayla == [name |-> "Ayla", hp_max |-> 2, hp_current |-> 1, id |-> "h1"]
        found == ExternalDisk(<<Ayla>>, <<Ayla>>, <<ExternalFile.monsters[2]>>)
        nameless == [hp_max |-> 2, hp_current |-> 2]
        levelless == [name |-> "Goblin", legendary |-> FALSE, group |-> "A"]
    IN /\ InitManager
       /\ capacity = MaxEncounter
       /\ marker_palette = <<White, Red>>
       /\ marker_start_number = 1
       /\ monster_library = <<GoblinTemplate>>
       /\ config \in {DefaultConfig, QuietConfig}
       /\ hooks = [on_log |-> "ok", on_state_changed |-> "ok",
                   on_concentration_note |-> "ok"]
       /\ \/ encounter_file = ExternalFile /\ disk = found
          \/ encounter_file = NoFile /\ disk = NoDisk
          \/ /\ encounter_file = [ExternalFile EXCEPT !.toplevel = "array"]
             /\ disk = [found EXCEPT !.party.toplevel = "array",
                                     !.library.toplevel = "string",
                                     !.session.toplevel = "array"]
          \/ /\ encounter_file = [ExternalFile EXCEPT !.monsters = <<levelless>>]
             /\ disk = [found EXCEPT
                            !.party.heroes = <<Ayla, nameless>>,
                            !.library.monsters =
                                <<[name |-> "Goblin", level |-> <<"1">>]>>,
                            !.session.monsters = <<levelless>>]

NextFiles ==
    \/ Rest
    \/ AtRest /\ add_hero_of_level
    \/ AtRest /\ damage_hero
    \/ AtRest /\ add_monster_from_library
    \/ AtRest /\ save_party
    \/ AtRest /\ save_encounter
    \/ AtRest /\ load_party
    \/ AtRest /\ load_encounter
    \/ AtRest /\ load_monster_library
    \/ AtRest /\ load_session

SpecFiles == InitFiles /\ [][NextFiles]_vars

\* ------------------------------------------------------------------------
\* Properties of the entity mutators (checked under SpecEntity)
\* ------------------------------------------------------------------------
IsMonster(e) == e.cls = "MonsterInstance"
IsHero(e) == e.cls = "Hero"

\* HP a damage call leaves before the death / last-stand decision
Absorbed(e, a) == Min(e.temp_hp, a)
HpAfterDamage(e, a) == e.hp_current - (a - Absorbed(e, a))

Status(m) ==
    IF m.dead THEN "Dead" ELSE IF m.last_stand_triggered THEN "Last Stand" ELSE "Alive"

DamageCall == call.op = "apply_damage" /\ call.amount > 0

\* C1: a legendary monster with last-stand text and last_stand_hp_value N >= 0
\* takes the last stand on the first damage call that brings hp_current to <= 0
\* (triggered, not dead, hp_current = N, or 1 when N = 0) and dies on the next
\* such call (dead, hp_current = 0); last_stand_triggered never returns to false
\* and the status only moves Alive -> Last Stand -> Dead.
C1_LastStandOneShot ==
    IsMonster(ent) =>
        /\ (/\ DamageCall
            /\ pre.legendary /\ pre.last_stand_text # ""
            /\ ~pre.last_stand_triggered /\ ~pre.dead
            /\ pre.last_stand_hp_value >= 0
            /\ HpAfterDamage(pre, call.amount) <= 0)
           => /\ ent.last_stand_triggered
              /\ ~ent.dead
              /\ ent.hp_current =
                    (IF pre.last_stand_hp_value = 0 THEN 1 ELSE pre.last_stand_hp_value)
        /\ (/\ DamageCall
            /\ pre.legendary /\ pre.last_stand_text # ""
            /\ pre.last_stand_triggered /\ ~pre.dead
            /\ HpAfterDamage(pre, call.amount) <= 0)
           => ent.dead /\ ent.hp_current = 0
        /\ pre.last_stand_triggered => ent.last_stand_triggered
        /\ (pre.legendary /\ pre.last_stand_text # "")
           => <<Status(pre), Status(ent)>> \in
                 {<<"Alive", "Alive">>, <<"Alive", "Last Stand">>,
                  <<"Last Stand", "Last Stand">>, <<"Last Stand", "Dead">>,
                  <<"Dead", "Dead">>}

\* C1 witness: a monster in its last stand (N >= 0) has just been killed
C1_Witness ==
    /\ IsMonster(ent) /\ DamageCall
    /\ pre.last_stand_triggered /\ ~pre.dead /\ pre.last_stand_hp_value >= 0
    /\ pre.hp_current = LastStandHp(pre)
    /\ ent.dead

\* C2: a dead monster has hp_current = 0, and stays dead with hp_current = 0
\* whatever is called on it.
C2_DeadHasZeroHp ==
    IsMonster(ent) =>
        /\ ent.dead => ent.hp_current = 0
        /\ pre.dead => ent.dead /\ ent.hp_current = 0

\* C2 witness: a positive heal was called on a dead monster
C2_Witness ==
    /\ IsMonster(ent) /\ pre.dead /\ pre.hp_max > 0
    /\ call.op = "apply_healing" /\ call.amount > 0

\* C3: a Hero keeps 0 <= hp_current <= hp_max and temp_hp >= 0;
\* set_temp_hp(a) stores max(0, a) and leaves hp_current alone.
C3_HeroHpInvariant ==
    IsHero(ent) =>
        /\ 0 <= ent.hp_current /\ ent.hp_current <= ent.hp_max
        /\ ent.temp_hp >= 0
        /\ call.op = "set_temp_hp" =>
              /\ ent.temp_hp = Max(0, call.amount)
              /\ ent.hp_current = pre.hp_current

\* C3 witness: set_temp_hp with a negative amount replaced a positive temp_hp
C3_Witness ==
    /\ IsHero(ent) /\ call.op = "set_temp_hp" /\ call.amount < 0
    /\ pre.temp_hp > 0 /\ ent.temp_hp = 0

\* C4 as stated: on every Hero or MonsterInstance with temp_hp, hp_current >= 0,
\* apply_damage(a > 0) takes min(t, a) from temp_hp, the remainder from
\* hp_current, min(a, t + h) in total; a <= 0 changes nothing.
C4_Original ==
    (call.op = "apply_damage" /\ pre.temp_hp >= 0 /\ pre.hp_current >= 0) =>
        IF call.amount > 0
        THEN /\ ent.temp_hp = pre.temp_hp - Absorbed(pre, call.amount)
             /\ ent.hp_current = Max(0, HpAfterDamage(pre, call.amount))
             /\ (pre.temp_hp + pre.hp_current) - (ent.temp_hp + ent.hp_current)
                   = Min(call.amount, pre.temp_hp + pre.hp_current)
        ELSE ent = pre

\* the call takes a monster into its last stand
TriggersLastStand ==
    /\ IsMonster(pre) /\ DamageCall /\ ~pre.dead
    /\ LastStandAvailable(pre) /\ HpAfterDamage(pre, call.amount) <= 0

\* C4 amended: the same, for a Hero or a MonsterInstance that is not dead:
\* temp_hp always loses min(t, a); unless the call triggers the last stand
\* the remainder comes off hp_current and min(a, t + h) is removed in total;
\* a <= 0, or a dead monster, changes nothing.
C4_TempHpAbsorbsFirst ==
    (call.op = "apply_damage" /\ pre.temp_hp >= 0 /\ pre.hp_current >= 0) =>
        IF call.amount <= 0 \/ (IsMonster(pre) /\ pre.dead)
        THEN ent = pre
        ELSE /\ ent.temp_hp = pre.temp_hp - Absorbed(pre, call.amount)
             /\ ~TriggersLastStand =>
                   /\ ent.hp_current = Max(0, HpAfterDamage(pre, call.amount))
                   /\ (pre.temp_hp + pre.hp_current) - (ent.temp_hp + ent.hp_current)
                         = Min(call.amount, pre.temp_hp + pre.hp_current)

\* C4 witness: one damage call emptied a Hero's temp_hp and cut into hp_current
C4_Witness ==
    /\ IsHero(ent) /\ DamageCall
    /\ pre.temp_hp > 0 /\ call.amount > pre.temp_hp
    /\ ent.temp_hp = 0 /\ ent.hp_current < pre.hp_current /\ ent.hp_current > 0

\* C5 as stated: after every apply_damage call the stored hp_current of a
\* template-derived monster is >= 0.
C5_StoredHpNonNegative ==
    (IsMonster(ent) /\ call.op = "apply_damage") => ent.hp_current >= 0

\* C6: apply_healing(a) changes nothing when a <= 0 or the monster is dead;
\* otherwise hp_current becomes min(hp_max, hp_current + a); temp_hp, dead and
\* last_stand_triggered are never changed by it.
C6_HealingFrame ==
    call.op = "apply_healing" =>
        /\ IF call.amount <= 0 \/ (IsMonster(pre) /\ pre.dead)
           THEN ent = pre
           ELSE ent.hp_current = Min(pre.hp_max, pre.hp_current + call.amount)
        /\ ent.temp_hp = pre.temp_hp
        /\ IsMonster(ent) =>
              /\ ent.dead = pre.dead
              /\ ent.last_stand_triggered = pre.last_stand_triggered

\* C6 witness: a heal on a living monster with temp HP was clamped at hp_max
C6_Witness ==
    /\ IsMonster(ent) /\ call.op = "apply_healing" /\ call.amount > 0
    /\ ~pre.dead /\ pre.temp_hp > 0 /\ pre.hp_current < pre.hp_max
    /\ pre.hp_current + call.amount > pre.hp_max
    /\ ent.hp_current = pre.hp_max

\* ------------------------------------------------------------------------
\* Properties of the marker assignment
\* ------------------------------------------------------------------------
Positions == 1 .. Len(monsters)

GroupsBefore(i) == {monsters[j].group : j \in 1 .. (i - 1)}

\* the colour the k-th new group (k counted from 0) takes from the palette
RoundRobin(k) ==
    IF marker_palette = <<>> THEN White ELSE marker_palette[(k % Len(marker_palette)) + 1]

Uncoloured(i) == arrived[i].marker_color = ""
Unnumbered(i) == arrived[i].marker_number <= 0

ArrivedBare == \A i \in Positions : Uncoloured(i) /\ Unnumbered(i)

GroupsAre(gs) == Len(monsters) = Len(gs) /\ \A i \in Positions : monsters[i].group = gs[i]

\* C7: on insert a monster that came with a marker_color keeps it, one that
\* came with "" gets group_color_map[group]; a group first seen when n groups
\* are mapped gets palette[n % len(palette)] ("#FFFFFF" without a palette), ""
\* included; uncoloured monsters in groups A, A, B under a 3-colour palette
\* get palette[0], palette[0], palette[1].
C7_MarkerColourPolicy ==
    /\ \A i \in Positions :
          /\ ~Uncoloured(i) => monsters[i].marker_color = arrived[i].marker_color
          /\ Uncoloured(i) => monsters[i].marker_color = group_color_map[monsters[i].group]
          /\ monsters[i].group \notin GroupsBefore(i) =>
                group_color_map[monsters[i].group] = RoundRobin(Cardinality(GroupsBefore(i)))
    /\ DOMAIN group_color_map = {monsters[i].group : i \in Positions}
    /\ (Len(marker_palette) = 3 /\ ArrivedBare /\ GroupsAre(<<"A", "A", "B">>)) =>
          /\ monsters[1].marker_color = marker_palette[1]
          /\ monsters[2].marker_color = marker_palette[1]
          /\ monsters[3].marker_color = marker_palette[2]

\* C7 witness: uncoloured monsters were added to groups A, A, B under a
\* 3-colour palette
C7_Witness ==
    /\ Len(marker_palette) = 3 /\ ArrivedBare /\ GroupsAre(<<"A", "A", "B">>)
    /\ call.op = "add_monster_from_template"

SetMax(S) == CHOOSE x \in S : \A y \in S : y <= x

NumbersBefore(i) ==
    {monsters[j].marker_number :
        j \in {k \in 1 .. (i - 1) : monsters[k].marker_color = monsters[i].marker_color}}

\* C8 as stated: a monster inserted with marker_number > 0 keeps it; any other
\* gets (max marker_number of the roster monsters of its colour) + 1, or
\* marker_start_number when the roster has no monster of that colour; with
\* start = 1 uncoloured monsters in groups A, A, B get the numbers 1, 2, 1.
C8_MarkerNumberPolicy ==
    /\ \A i \in Positions :
          IF ~Unnumbered(i) THEN monsters[i].marker_number = arrived[i].marker_number
          ELSE monsters[i].marker_number =
                  (IF NumbersBefore(i) = {} THEN marker_start_number
                   ELSE SetMax(NumbersBefore(i)) + 1)
    /\ (marker_start_number = 1 /\ Len(marker_palette) >= 2 /\ ArrivedBare
          /\ GroupsAre(<<"A", "A", "B">>)) =>
          /\ monsters[1].marker_number = 1
          /\ monsters[2].marker_number = 2
          /\ monsters[3].marker_number = 1

\* C9 as stated: remove_monster(m) removes exactly m (nothing when m is not in
\* the roster) and leaves every remaining monster, their order, their markers
\* and group_color_map as they were.
C9_RemoveExactlyM ==
    [][call'.op = "remove_monster" =>
          /\ monsters' = (IF call'.index = 0 THEN monsters
                          ELSE RemoveAt(monsters, call'.index))
          /\ group_color_map' = group_color_map]_vars

\* C10 as stated: rebuilding group_color_map from the current roster gives
\* every group present in the roster the colour the live map gives it.
C10_RebuildAgreesWithLiveMap ==
    \A i \in Positions :
        rebuild_marker_maps(monsters).map[monsters[i].group]
            = group_color_map[monsters[i].group]

\* ------------------------------------------------------------------------
\* Loading (checked under SpecLoad)
\* ------------------------------------------------------------------------
\* C11: after load_encounter or load_session, group_color_map maps each group of
\* the roster to the first non-empty marker_color seen for that group in roster
\* order; every loaded monster that came with marker_color "" has its group's
\* colour, so no monster of the roster is without a colour; and each
\* marker_number is exactly the value read from the file.
C11_RebuildOnLoad ==
    (call.op \in {"load_encounter", "load_session"} /\ call.raised = "") =>
        LET \* the first non-empty colour among the entries of one group
            RECURSIVE FirstColour(_, _)
            FirstColour(ms, g) ==
                IF ms = <<>> THEN ""
                ELSE IF Head(ms).group = g /\ Head(ms).marker_color # ""
                THEN Head(ms).marker_color
                ELSE FirstColour(Tail(ms), g)
            \* the loaded records as they were in the file
            AsRead == [i \in 1 .. Len(arrived) |->
                          [group |-> monsters[i].group,
                           marker_color |-> arrived[i].marker_color]]
        IN
        /\ DOMAIN group_color_map = {monsters[i].group : i \in 1 .. Len(monsters)}
        /\ \A g \in DOMAIN group_color_map :
               /\ group_color_map[g] = FirstColour(monsters, g)
               /\ FirstColour(AsRead, g) # "" =>
                      group_color_map[g] = FirstColour(AsRead, g)
        /\ \A i \in 1 .. Len(monsters) :
               /\ arrived[i].marker_color = "" =>
                      monsters[i].marker_color = group_color_map[monsters[i].group]
               /\ monsters[i].marker_color # ""
               /\ monsters[i].marker_number = arrived[i].marker_number

\* a session load that took one group's colour from the file and coloured a
\* monster of an uncoloured group from the palette, keeping its number
C11_Witness ==
    /\ call.op = "load_session" /\ call.raised = ""
    /\ \E i, j \in 1 .. Len(monsters) :
           /\ arrived[i].marker_color = ""
           /\ \A k \in 1 .. Len(monsters) :
                  monsters[k].group = monsters[i].group => arrived[k].marker_color = ""
           /\ monsters[i].marker_color # ""
           /\ monsters[i].marker_number = 2
           /\ arrived[j].marker_color # ""
           /\ group_color_map[monsters[j].group] = arrived[j].marker_color

\* ------------------------------------------------------------------------
\* The Dying tag of a Hero (checked under SpecEntity)
\* ------------------------------------------------------------------------
\* C20: after every apply_damage(a) with a > 0 on a Hero, "Dying" is among the
\* conditions exactly when hp_current = 0, whatever the conditions list held
\* before and whether or not temp_hp absorbed the damage.
C20_DyingFollowsHp ==
    (IsHero(ent) /\ DamageCall) =>
        (InList(ent.conditions, Dying) <=> ent.hp_current = 0)

\* ------------------------------------------------------------------------
\* Notification and autosave (checked under SpecNotify)
\* ------------------------------------------------------------------------
\* the mutating methods that go through _changed()
ChangedOps ==
    {"add_hero", "remove_hero", "add_monster_from_template", "add_monster_instance",
     "remove_monster", "damage_hero", "heal_hero", "set_hero_temp_hp",
     "add_hero_condition", "remove_hero_condition", "damage_monster", "heal_monster",
     "set_monster_temp_hp", "add_monster_condition", "remove_monster_condition",
     "load_monster_library", "load_party", "load_encounter"}

\* how many invocations of a kind the call made
Count(kind) == Cardinality({i \in 1 .. Len(events) : events[i].kind = kind})

\* the call made exactly one autosave write if enabled and then exactly one
\* on_state_changed invocation if set, as the last things it did
EndsWithChanged ==
    LET n == Len(events)
        \* the invocations _changed() is to make under the configuration
        ChangedTail ==
            (IF config.autosave_enabled THEN <<"autosave">> ELSE <<>>)
            \o (IF hooks.on_state_changed # "none"
                THEN <<"on_state_changed">> ELSE <<>>)
        k == Len(ChangedTail)
    IN /\ Count("autosave") = (IF config.autosave_enabled THEN 1 ELSE 0)
       /\ Count("on_state_changed") = (IF hooks.on_state_changed # "none" THEN 1 ELSE 0)
       /\ n >= k
       /\ \A j \in 1 .. k : events[n - k + j].kind = ChangedTail[j]

\* C12 as stated: every call of a mutating method ends by invoking _changed(),
\* whatever its arguments, an entity outside the roster included.
C12_Original == call.op \in ChangedOps => EndsWithChanged

\* C12, amended: every call of a mutating method ends by invoking _changed() -
\* one autosave write if enabled, then one on_state_changed if set - for every
\* argument, a damage amount <= 0 and a combat action on an entity outside the
\* roster included, except a remove_hero / remove_monster that finds no equal
\* roster entry (it does nothing at all) and a load that raises on its file.
C12_ChangedEndsCall ==
    [][(/\ call'.op \in ChangedOps
        /\ call'.raised \notin {"FileNotFoundError", "TypeError"}
        /\ ~(call'.op = "remove_hero" /\ heroes' = heroes)
        /\ ~(call'.op = "remove_monster" /\ monsters' = monsters))
       => EndsWithChanged']_vars

\* damage of amount 0 on a hero outside the roster, ended by _changed()
C12_Witness ==
    /\ call.op = "damage_hero" /\ call.index = 0
    /\ config.autosave_enabled /\ hooks.on_state_changed = "ok"
    /\ Len(events) = 3
    /\ events[1].kind = "on_log" /\ events[1].arg = 0
    /\ events[2].kind = "autosave"
    /\ events[3].kind = "on_state_changed"

\* C13: within one call every on_log invocation (the message about a failed
\* concentration handler included) comes before the autosave write, the write
\* comes before the on_state_changed invocation, and on_state_changed finds
\* the final state of the call.
C13_CallbackOrder ==
    /\ \A i, j \in 1 .. Len(events) :
           /\ (events[i].kind = "on_log"
                /\ events[j].kind \in {"autosave", "on_state_changed"}) => i < j
           /\ (events[i].kind = "autosave" /\ events[j].kind = "on_state_changed")
                  => i < j
    /\ \A j \in 1 .. Len(events) :
           events[j].kind = "on_state_changed" =>
               /\ j = Len(events)
               /\ events[j].arg = [heroes |-> heroes, monsters |-> monsters]

\* a damage call that logged the damage, the dying hero and the failed
\* handler, wrote the autosave and notified, in this order
C13_Witness ==
    /\ call.op = "damage_hero" /\ call.raised = ""
    /\ Len(events) = 6
    /\ events[1].kind = "on_log" /\ events[1].arg = 2
    /\ events[2].kind = "on_log" /\ events[2].msg = "Hero is DYING"
    /\ events[3].kind = "on_concentration_note"
    /\ events[4].kind = "on_log" /\ events[4].msg = "Concentration note handler failed"
    /\ events[5].kind = "autosave"
    /\ events[6].kind = "on_state_changed"
    /\ heroes[call.index].hp_current = 0

\* C14: with on_concentration_note set, a concentrating hero or monster that
\* takes damage through damage_hero / damage_monster has the hook invoked with
\* itself as the argument, and a creature that is not concentrating never
\* causes an invocation.
C14_ConcentrationNote ==
    (call.op \in {"damage_hero", "damage_monster"}
     /\ hooks.on_concentration_note # "none") =>
        LET \* the creature the call was made on, as the call left it
            damaged == IF call.op = "damage_hero" THEN HeroArg(call.index)
                       ELSE MonsterArg(call.index)
            \* the amount was > 0, as the log line of the damage tells
            took_damage ==
                \E i \in 1 .. Len(events) :
                    /\ events[i].kind = "on_log"
                    /\ events[i].msg \in {"Hero takes damage", "Monster takes damage"}
                    /\ events[i].arg > 0
        IN /\ (damaged.concentrating /\ took_damage) =>
                  \E i \in 1 .. Len(events) :
                      /\ events[i].kind = "on_concentration_note"
                      /\ events[i].arg = damaged
           /\ ~damaged.concentrating => Count("on_concentration_note") = 0

\* C15 as stated: an exception raised by on_state_changed or by
\* on_concentration_note never reaches the caller.
C15_Original == call.raised # "HookError"

\* C15, amended: an exception raised by on_concentration_note is caught and
\* logged through on_log and the call goes on to _changed(); an exception
\* raised by on_state_changed is not caught: it reaches the caller, after the
\* mutation and the autosave write of the call are complete.
C15_HookFailures ==
    /\ (hooks.on_concentration_note = "raises" /\ call.op \in ChangedOps) =>
           /\ call.raised \notin {"HookError"}
           /\ \A i \in 1 .. Len(events) :
                  events[i].kind = "on_concentration_note" =>
                      /\ i < Len(events)
                      /\ events[i + 1].kind = "on_log"
                      /\ events[i + 1].msg = "Concentration note handler failed"
                      /\ EndsWithChanged
    /\ (hooks.on_state_changed = "raises" /\ Count("on_state_changed") > 0) =>
           /\ call.raised = "HookError"
           /\ events[Len(events)].kind = "on_state_changed"
           /\ events[Len(events)].arg = [heroes |-> heroes, monsters |-> monsters]
           /\ (config.autosave_enabled /\ call.op \in ChangedOps) =>
                  disk.session = autosave_session(heroes, monsters)

\* a damage call that reached the caller as an exception with the hero
\* already at 0 HP and the autosave written
C15_Witness ==
    /\ call.op = "damage_hero" /\ call.raised = "HookError"
    /\ call.index > 0
    /\ heroes[call.index].hp_current = 0
    /\ disk.session.heroes[call.index].hp_current = 0

RECURSIVE LiveLevelSum(_)
\* sum of the levels of the monsters that are not dead; a level string that
\* stands for no number counts 0
LiveLevelSum(ms) ==
    LET level == Head(ms).level
        number ==
            CASE level = <<"4">> -> Rat(4, 1)
              [] level = <<"5">> -> Rat(5, 1)
              [] level = <<"7", ".", "5">> -> Rat(15, 2)
              [] level = <<"1", "0">> -> Rat(10, 1)
              [] level = <<"1", "2", ".", "5">> -> Rat(25, 2)
              [] level = <<"1", "3">> -> Rat(13, 1)
              [] level = <<"1", "/", "2">> -> Rat(1, 2)
              [] level = <<" ", "3", " ", "x">> -> Rat(3, 1)
              [] OTHER -> Rat(0, 1)
    IN IF ms = <<>> THEN Rat(0, 1)
       ELSE IF Head(ms).dead THEN LiveLevelSum(Tail(ms))
       ELSE RatAdd(number, LiveLevelSum(Tail(ms)))

C18_DifficultyRatio ==
    /\ (call.op = "encounter_difficulty_ratio" /\ call.raised = "") =>
           LET sum == LiveLevelSum(monsters) IN
           returned[1] = (IF heroes = <<>> THEN Rat(0, 1)
                          ELSE Norm(sum.n, sum.d * total_hero_levels(heroes)))
    /\ (call.op = "total_monster_levels" /\ call.raised = "") => returned[1] = LiveLevelSum(monsters)

\* the sum was asked for a roster of a monster killed by damage and an
\* inactive monster in last stand, and only the second one counted
C18_Witness ==
    /\ (call.op = "total_monster_levels" /\ call.raised = "")
    /\ Len(monsters) = 2
    /\ monsters[1].dead /\ monsters[1].level = <<"4">>
    /\ monsters[2].last_stand_triggered /\ ~monsters[2].dead /\ ~monsters[2].active
    /\ returned = <<Rat(5, 1)>>

\* C19: total_monster_levels never raises, whatever level strings the
\* monsters carry: it returns the sum of the levels that parse, a monster
\* whose level does not parse counting 0.
C19_LevelsNeverRaise ==
    call.op = "total_monster_levels" =>
        /\ call.raised = ""
        /\ returned[1] = LiveLevelSum(monsters)

\* ------------------------------------------------------------------------
\* The condition list (checked under SpecEntity)
\* ------------------------------------------------------------------------
\* C21: a call of add_condition, remove_condition, apply_damage or
\* apply_healing on a Hero or MonsterInstance whose condition list holds no
\* duplicates leaves a list without duplicates; a second add_condition(c)
\* changes nothing; add_condition of a tag the list holds or of a blank
\* string, and remove_condition of a tag the list does not hold, leave the
\* list as it was, elements and order.
C21_ConditionSet ==
    LET NoDuplicates(l) == \A i, j \in 1 .. Len(l) : l[i] = l[j] => i = j
        tag == Strip(call.cond)
    IN /\ NoDuplicates(pre.conditions) => NoDuplicates(ent.conditions)
       /\ call.op = "add_condition" =>
              /\ add_condition(ent, call.cond) = ent
              /\ (tag = <<>> \/ InList(pre.conditions, tag)) =>
                     ent.conditions = pre.conditions
              /\ (tag # <<>> /\ ~InList(pre.conditions, tag)) =>
                     ent.conditions = Append(pre.conditions, tag)
       /\ (call.op = "remove_condition" /\ ~InList(pre.conditions, tag)) =>
              ent.conditions = pre.conditions

\* " Dying " was added to a list that holds "Dying" behind another tag, and
\* the list stayed as it was
C21_Witness ==
    /\ call.op = "add_condition"
    /\ call.cond = <<" ">> \o Dying \o <<" ">>
    /\ pre.conditions = <<LastStand, Dying>>
    /\ ent.conditions = <<LastStand, Dying>>

\* ------------------------------------------------------------------------
\* Healing (checked under SpecEntity)
\* ------------------------------------------------------------------------
\* C26: apply_healing(a) with a > 0 on a Hero or MonsterInstance, a legendary
\* monster in last stand whose last_stand_hp_value exceeds hp_max included,
\* leaves hp_current at or above its value before the call.
C26_HealingNeverLowersHp ==
    (call.op = "apply_healing" /\ call.amount > 0) => ent.hp_current >= pre.hp_current

\* ------------------------------------------------------------------------
\* Last-stand and death messages (checked under SpecNotify)
\* ------------------------------------------------------------------------
\* C29: with all log flags enabled, a damage_monster call sends the
\* "triggers LAST STAND" message to on_log only when it is the call in which
\* last_stand_triggered of the monster changes from false to true, and the
\* "is DEAD" message only when it is the call in which dead changes from
\* false to true; a later damage call on the monster does not repeat them.
C29_MessagesOnce ==
    [][(call'.op = "damage_monster" /\ call'.index > 0) =>
          LET before == monsters[call'.index]
              after == monsters'[call'.index]
              Sent(msg) == \E k \in 1 .. Len(events') :
                               events'[k].kind = "on_log" /\ events'[k].msg = msg
          IN /\ Sent("triggers LAST STAND") =>
                    (~before.last_stand_triggered /\ after.last_stand_triggered)
             /\ Sent("Monster is DEAD") => (~before.dead /\ after.dead)]_vars

\* ------------------------------------------------------------------------
\* Marker uniqueness (checked under SpecRoster)
\* ------------------------------------------------------------------------
\* C27: with marker_start_number >= 1, after any interleaving of
\* add_monster_from_template and remove_monster calls from an empty roster,
\* every monster of the roster has a non-empty marker_color and a
\* marker_number >= marker_start_number, and no two monsters of the roster
\* share the pair (marker_color, marker_number), also when there are more
\* groups than palette colours and after removals.
C27_MarkerUniqueness ==
    marker_start_number >= 1 =>
        /\ \A i \in 1 .. Len(monsters) :
               /\ monsters[i].marker_color # ""
               /\ monsters[i].marker_number >= marker_start_number
        /\ \A i, j \in 1 .. Len(monsters) :
               (/\ monsters[i].marker_color = monsters[j].marker_color
                /\ monsters[i].marker_number = monsters[j].marker_number) => i = j

\* three groups on a palette of two colours: after the removal of the
\* monster numbered 1, the add gave the second monster of its colour the
\* number 3, next to the 2 of another group
C27_Witness ==
    /\ marker_start_number = 1 /\ Len(marker_palette) = 2
    /\ Cardinality(DOMAIN group_color_map) = 3
    /\ call.op = "add_monster_from_template"
    /\ \E i, j \in 1 .. Len(monsters) :
           /\ monsters[i].group # monsters[j].group
           /\ monsters[i].marker_color = monsters[j].marker_color
           /\ monsters[i].marker_number = 2
           /\ monsters[j].marker_number = 3
           /\ j = Len(monsters)

C24_LenientLoading ==
    call.op \in {"load_party", "load_encounter", "load_session", "load_monster_library"}
        => call.raised # "TypeError"

\* C25: load_session on a path that is no file does not raise: the roster
\* becomes empty and on_state_changed is invoked; load_party, load_encounter
\* and load_monster_library on a missing file raise the not-found error of
\* the persistence layer, which reaches the caller as it is.
C25_MissingFiles ==
    [][/\ (call'.op = "load_session" /\ ~disk.session.exists) =>
              /\ call'.raised = ""
              /\ heroes' = <<>> /\ monsters' = <<>>
              /\ \E k \in 1 .. Len(events') :
                     /\ events'[k].kind = "on_state_changed"
                     /\ events'[k].arg = [heroes |-> <<>>, monsters |-> <<>>]
       /\ (call'.op = "load_party" /\ ~disk.party.exists) =>
              call'.raised = "FileNotFoundError"
       /\ (call'.op = "load_encounter" /\ ~encounter_file.exists) =>
              call'.raised = "FileNotFoundError"
       /\ (call'.op = "load_monster_library" /\ ~disk.library.exists) =>
              call'.raised = "FileNotFoundError"]_vars

\* load_session found no session file and emptied the roster; the party
\* file saved before holds the heroes the roster had
C25_Witness ==
    /\ call.op = "load_session" /\ call.raised = ""
    /\ ~disk.session.exists
    /\ heroes = <<>> /\ monsters = <<>>
    /\ disk.party.exists /\ Len(disk.party.heroes) = 2
    /\ ~disk.library.exists
    /\ events[Len(events)].kind = "on_state_changed"

\* C30: a load_party, load_encounter, load_monster_library or load_session
\* that raises - for a missing file, a top-level value of the wrong type or
\* a record that cannot be constructed - leaves heroes, monsters,
\* monster_library and group_color_map as they were and invokes neither
\* on_log nor autosave nor on_state_changed; a load_party that succeeds
\* leaves monsters and group_color_map unchanged, a load_encounter that
\* succeeds leaves heroes unchanged.
C30_FailedLoads ==
    [][/\ (/\ call'.op \in {"load_party", "load_encounter", "load_monster_library",
                            "load_session"}
           /\ call'.raised \in {"FileNotFoundError", "ValueError", "TypeError"}) =>
              /\ heroes' = heroes
              /\ monsters' = monsters
              /\ monster_library' = monster_library
              /\ group_color_map' = group_color_map
              /\ events' = <<>>
              /\ disk' = disk
       /\ (call'.op = "load_party" /\ call'.raised = "") =>
              (monsters' = monsters /\ group_color_map' = group_color_map)
       /\ (call'.op = "load_encounter" /\ call'.raised = "") => heroes' = heroes]_vars

\* load_encounter has raised on a record without a level, with all hooks
\* set and a hero and a monster in the roster, and nothing was invoked
C30_Witness ==
    /\ call.op = "load_encounter" /\ call.raised = "TypeError"
    /\ Len(heroes) = 1 /\ Len(monsters) = 1
    /\ DOMAIN group_color_map # {}
    /\ hooks.on_log = "ok" /\ hooks.on_state_changed = "ok"
    /\ config.autosave_enabled
    /\ events = <<>>

\* ------------------------------------------------------------------------
\* Autosave consistency (checked under SpecNotify)
\* ------------------------------------------------------------------------
\* C28 as stated: with autosave enabled, after every call of a mutating
\* method other than load_session returns, the session file holds exactly
\* the heroes and monsters of the manager, so that load_session from it
\* reproduces the roster; and on_state_changed never finds a roster that
\* differs from the file.
C28_Original ==
    config.autosave_enabled =>
        LET FileHeroes == [i \in 1 .. Len(disk.session.heroes) |->
                               Hero_from_dict(disk.session.heroes[i])]
            FileMonsters == LoadRecords(disk.session.monsters)
        IN /\ (call.op \in ChangedOps /\ call.raised = "") =>
                  /\ disk.session = autosave_session(heroes, monsters)
                  /\ FileHeroes = heroes
                  /\ rebuild_marker_maps(FileMonsters).monsters = monsters
           /\ \A k \in 1 .. Len(events) :
                  events[k].kind = "on_state_changed" =>
                      events[k].arg = [heroes |-> FileHeroes, monsters |-> FileMonsters]

\* C28, amended: with autosave enabled, after a call of a mutating method
\* other than load_session returns - a remove_hero / remove_monster that
\* finds no equal roster entry excepted, which writes nothing - the session
\* file holds exactly the heroes and monsters of the manager and
\* load_session from it reproduces the roster; the on_state_changed of such
\* a call, whether it returns or raises, finds the roster the file holds.
C28_AutosaveConsistency ==
    [][(/\ config.autosave_enabled
        /\ call'.op \in ChangedOps
        /\ call'.raised \in {"", "HookError"}
        /\ ~(call'.op = "remove_hero" /\ heroes' = heroes)
        /\ ~(call'.op = "remove_monster" /\ monsters' = monsters)) =>
          LET file == disk'.session
              FileHeroes == [i \in 1 .. Len(file.heroes) |->
                                 Hero_from_dict(file.heroes[i])]
              FileMonsters == LoadRecords(file.monsters)
          IN /\ file = autosave_session(heroes', monsters')
             /\ FileHeroes = heroes'
             /\ rebuild_marker_maps(FileMonsters).monsters = monsters'
             /\ \A k \in 1 .. Len(events') :
                    events'[k].kind = "on_state_changed" =>
                        events'[k].arg = [heroes |-> FileHeroes,
                                          monsters |-> FileMonsters]]_vars

\* load_encounter has coloured the monster of the encounter file, and the
\* session file written by its autosave holds the coloured monster
C28_Witness ==
    /\ call.op = "load_encounter" /\ call.raised = ""
    /\ config.autosave_enabled
    /\ Len(monsters) = 1
    /\ encounter_file.monsters[1].marker_color = ""
    /\ monsters[1].marker_color = White
    /\ disk.session = autosave_session(heroes, monsters)
    /\ events[Len(events)].kind = "on_state_changed"

====
